---------------------------- MODULE Spec2Model ----------------------------
(***************************************************************************)
(* A model of the assistant bot of src/main.py: the validated fields, the  *)
(* Record, the AddressBook (a dict kept in insertion order), the command   *)
(* handlers under the input_error decorator, the upcoming-birthdays query  *)
(* and the pickle persistence of main().                                   *)
(*                                                                         *)
(* Strings are sequences of one-character strings, so that validation,     *)
(* parsing and formatting are computed character by character.             *)
(***************************************************************************)
EXTENDS Integers, Sequences, FiniteSets, TLC

VARIABLES
    book,      \* AddressBook.data: sequence of [key, rec], in insertion order
    file,      \* addressbook.pkl: [exists, bytes]
    pc,        \* where main() stands: "prompt" (in input()), "print" (a command
               \* has run and its result is being printed) or "stopped"
    last,      \* at "print", the command that ran: [cmd, args, result, now]
    prev,      \* at "print", the book as it was before that command
    saved      \* the book that was in memory at the most recent save_data

vars == <<book, file, pc, last, prev, saved>>

----------------------------------------------------------------------------
(* Bounds of the model *)

\* the most phones the whole book holds (add stops being issued beyond it)
MaxPhones == 3

----------------------------------------------------------------------------
(* Characters and strings *)

DigitChars == <<"0", "1", "2", "3", "4", "5", "6", "7", "8", "9">>

\* the ASCII decimal digits
DecimalDigits == {DigitChars[i] : i \in 1..10}

\* characters str.isdigit() accepts besides the decimal ones; "^2" stands
\* for U+00B2 SUPERSCRIPT TWO
SuperscriptDigits == {"^2"}

Letters ==
    {"a", "b", "c", "d", "e", "f", "g", "h", "i", "j", "k", "l", "m",
     "n", "o", "p", "q", "r", "s", "t", "u", "v", "w", "x", "y", "z",
     "A", "B", "C", "D", "E", "F", "G", "H", "I", "J", "K", "L", "M",
     "N", "O", "P", "Q", "R", "S", "T", "U", "V", "W", "X", "Y", "Z"}

\* str.isalpha(): at least one character, all of them letters
isalpha(s) == Len(s) > 0 /\ \A i \in 1..Len(s) : s[i] \in Letters

\* str.isdigit(): at least one character, all of them digits; Python counts
\* the superscript digits as digits
isdigit(s) ==
    Len(s) > 0 /\ \A i \in 1..Len(s) : s[i] \in DecimalDigits \cup SuperscriptDigits

LowerLetters == <<"a", "b", "c", "d", "e", "f", "g", "h", "i", "j", "k", "l", "m",
                  "n", "o", "p", "q", "r", "s", "t", "u", "v", "w", "x", "y", "z">>

UpperLetters == <<"A", "B", "C", "D", "E", "F", "G", "H", "I", "J", "K", "L", "M",
                  "N", "O", "P", "Q", "R", "S", "T", "U", "V", "W", "X", "Y", "Z">>

upper(c) ==
    IF \E i \in 1..26 : LowerLetters[i] = c
    THEN UpperLetters[CHOOSE i \in 1..26 : LowerLetters[i] = c]
    ELSE c

lower(c) ==
    IF \E i \in 1..26 : UpperLetters[i] = c
    THEN LowerLetters[CHOOSE i \in 1..26 : UpperLetters[i] = c]
    ELSE c

\* str.capitalize(): the first character upper-cased, the rest lower-cased
capitalize(s) ==
    [i \in 1..Len(s) |-> IF i = 1 THEN upper(s[i]) ELSE lower(s[i])]

DigitVal(c) == (CHOOSE i \in 1..10 : DigitChars[i] = c) - 1

RECURSIVE ToInt(_)
ToInt(s) ==
    IF s = <<>> THEN 0
    ELSE ToInt(SubSeq(s, 1, Len(s) - 1)) * 10 + DigitVal(s[Len(s)])

RECURSIVE ToDigits(_)
ToDigits(n) ==
    IF n < 10 THEN <<DigitChars[n + 1]>>
    ELSE ToDigits(n \div 10) \o <<DigitChars[(n % 10) + 1]>>

----------------------------------------------------------------------------
(* The calendar of datetime *)

Date(y, m, d) == [y |-> y, m |-> m, d |-> d]

NoDate == Date(0, 0, 0)

is_leap(y) == y % 4 = 0 /\ (y % 100 # 0 \/ y % 400 = 0)

days_in_month(y, m) ==
    IF m = 2 THEN (IF is_leap(y) THEN 29 ELSE 28)
    ELSE IF m \in {4, 6, 9, 11} THEN 30 ELSE 31

days_before_year(y) ==
    (y - 1) * 365 + ((y - 1) \div 4) - ((y - 1) \div 100) + ((y - 1) \div 400)

RECURSIVE days_before_month(_, _)
days_before_month(y, m) ==
    IF m = 1 THEN 0 ELSE days_before_month(y, m - 1) + days_in_month(y, m - 1)

\* datetime.toordinal(): 1 for 01.01.0001
toordinal(dt) == days_before_year(dt.y) + days_before_month(dt.y, dt.m) + dt.d

\* datetime.weekday(): 0 for Monday .. 6 for Sunday
weekday(dt) == (toordinal(dt) + 6) % 7

\* what the datetime constructor and datetime.replace accept
valid_date(y, m, d) ==
    /\ y \in 1..9999
    /\ m \in 1..12
    /\ d \in 1..days_in_month(y, m)

----------------------------------------------------------------------------
(* datetime.strptime(value, "%d.%m.%Y") and strftime("%d.%m.%Y") *)

AllDecimal(s) == \A i \in 1..Len(s) : s[i] \in DecimalDigits

\* %d: 3[0-1] | [1-2]\d | 0[1-9] | [1-9] | " "[1-9]
matches_d(s) ==
    \/ Len(s) = 2 /\ s[1] = "3" /\ s[2] \in {"0", "1"}
    \/ Len(s) = 2 /\ s[1] \in {"1", "2"} /\ s[2] \in DecimalDigits
    \/ Len(s) = 2 /\ s[1] \in {"0", " "} /\ s[2] \in DecimalDigits \ {"0"}
    \/ Len(s) = 1 /\ s[1] \in DecimalDigits \ {"0"}

\* %m: 1[0-2] | 0[1-9] | [1-9]
matches_m(s) ==
    \/ Len(s) = 2 /\ s[1] = "1" /\ s[2] \in {"0", "1", "2"}
    \/ Len(s) = 2 /\ s[1] = "0" /\ s[2] \in DecimalDigits \ {"0"}
    \/ Len(s) = 1 /\ s[1] \in DecimalDigits \ {"0"}

\* %Y: \d\d\d\d
matches_Y(s) == Len(s) = 4 /\ AllDecimal(s)

StripSpace(s) == IF Len(s) > 0 /\ s[1] = " " THEN Tail(s) ELSE s

\* [ok, value]: the parsed date, or ok = FALSE where strptime raises ValueError
strptime(s) ==
    LET dots == {i \in 1..Len(s) : s[i] = "."}
        bad  == [ok |-> FALSE, value |-> NoDate]
    IN  IF Cardinality(dots) # 2 THEN bad
        ELSE
          LET i1 == CHOOSE i \in dots : \A j \in dots : i <= j
              i2 == CHOOSE i \in dots : \A j \in dots : j <= i
              ds == SubSeq(s, 1, i1 - 1)
              ms == SubSeq(s, i1 + 1, i2 - 1)
              ys == SubSeq(s, i2 + 1, Len(s))
          IN  IF ~(matches_d(ds) /\ matches_m(ms) /\ matches_Y(ys)) THEN bad
              ELSE
                LET d == ToInt(StripSpace(ds))
                    m == ToInt(ms)
                    y == ToInt(ys)
                IN  IF valid_date(y, m, d)
                    THEN [ok |-> TRUE, value |-> Date(y, m, d)]
                    ELSE bad

Pad2(n) == <<DigitChars[(n \div 10) + 1], DigitChars[(n % 10) + 1]>>

\* %Y of strftime: the C library decides whether a year below 1000 is
\* zero-padded to four digits (pad) or printed as it is
FormatYear(y, pad) ==
    LET ds == ToDigits(y)
    IN  IF pad /\ Len(ds) < 4
        THEN [i \in 1..(4 - Len(ds)) |-> "0"] \o ds
        ELSE ds

strftime(dt, pad) ==
    Pad2(dt.d) \o <<".">> \o Pad2(dt.m) \o <<".">> \o FormatYear(dt.y, pad)

----------------------------------------------------------------------------
(* Field, Name, Phone, Birthday *)

NameError == "Name should contain only alphabetic characters."
PhoneError == "Phone number should contain 10 digits."
BirthdayError == "Invalid date format. Use DD.MM.YYYY"

\* Name.__init__ raises ValueError unless this holds
NameValid(value) == isalpha(value)

\* Phone.__init__ raises ValueError unless this holds
PhoneValid(value) == isdigit(value) /\ Len(value) = 10

\* Birthday.__init__: [ok, value], ok = FALSE where it raises ValueError
Birthday(value) == strptime(value)

NoBirthday == [set |-> FALSE, value |-> NoDate]

----------------------------------------------------------------------------
(* Record *)

Record(name) == [name |-> name, phones |-> <<>>, birthday |-> NoBirthday]

\* Record.add_phone, the phone already validated by the caller
add_phone_prepend(rec, phone) == [rec EXCEPT !.phones = <<phone>> \o @]

add_phone(rec, phone) == [rec EXCEPT !.phones = Append(@, phone)]

RemoveAt(s, i) == SubSeq(s, 1, i - 1) \o SubSeq(s, i + 1, Len(s))

\* the for loop of Record.remove_phone: the list iterator stands at index i
\* (1-based) of the list it is removing from; list.remove(p) takes out p
\* itself, the Phone objects of a list being distinct objects without __eq__
RECURSIVE remove_phone_loop(_, _, _)
remove_phone_loop(phones, i, phone) ==
    IF i > Len(phones) THEN phones
    ELSE IF phones[i] = phone
         THEN remove_phone_loop(RemoveAt(phones, i), i + 1, phone)
         ELSE remove_phone_loop(phones, i + 1, phone)

remove_phone(rec, phone) ==
    [rec EXCEPT !.phones = remove_phone_loop(@, 1, phone)]

\* Record.edit_phone: the loop has no break
edit_phone(rec, old_phone, new_phone) ==
    [rec EXCEPT !.phones =
        [i \in 1..Len(@) |-> IF @[i] = old_phone THEN new_phone ELSE @[i]]]

\* Record.add_birthday, for a string Birthday accepts
set_birthday(rec, date) == [rec EXCEPT !.birthday = [set |-> TRUE, value |-> date]]

----------------------------------------------------------------------------
(* AddressBook: a dict, kept as the sequence of its items in insertion order *)

\* the position of key in the dict, 0 when it is absent
IndexOf(b, key) ==
    IF \E i \in 1..Len(b) : b[i].key = key
    THEN CHOOSE i \in 1..Len(b) : b[i].key = key
    ELSE 0

\* self.data[key] = rec: an existing key keeps its place
SetItem(b, key, rec) ==
    IF IndexOf(b, key) = 0
    THEN Append(b, [key |-> key, rec |-> rec])
    ELSE [b EXCEPT ![IndexOf(b, key)].rec = rec]

add_record_capitalized(b, record) == SetItem(b, capitalize(record.name), record)

add_record(b, record) == SetItem(b, record.name, record)

\* AddressBook.delete: dict.pop, which raises KeyError for an absent key
delete(b, name) ==
    IF IndexOf(b, name) = 0
    THEN [raised |-> TRUE, book |-> b]
    ELSE [raised |-> FALSE, book |-> RemoveAt(b, IndexOf(b, name))]

\* AddressBook.find: dict.get; 0 stands for None
find(b, name) == IndexOf(b, name)

\* datetime < datetime, for a birthday (midnight) and today (date and second)
Before(dt, today) ==
    \/ toordinal(dt) < toordinal(today.date)
    \/ toordinal(dt) = toordinal(today.date) /\ 0 < today.sec

\* (dt - today).days: timedelta normalises to 0 <= seconds < 86400
DaysUntil(dt, today) ==
    ((toordinal(dt) - toordinal(today.date)) * 86400 - today.sec) \div 86400

\* the while loop of get_upcoming_birthdays: replace(day = day + 1) raises
\* ValueError past the end of the month
RECURSIVE shift_weekend(_)
shift_weekend(dt) ==
    IF weekday(dt) > 4
    THEN IF valid_date(dt.y, dt.m, dt.d + 1)
         THEN shift_weekend(Date(dt.y, dt.m, dt.d + 1))
         ELSE [raised |-> TRUE, value |-> dt]
    ELSE [raised |-> FALSE, value |-> dt]

\* the body of the for loop for one record with a birthday:
\* [raised, keep, value]
upcoming_one(birthday, today) ==
    LET none == [raised |-> FALSE, keep |-> FALSE, value |-> NoDate]
        err  == [raised |-> TRUE, keep |-> FALSE, value |-> NoDate]
    IN  IF ~valid_date(today.date.y, birthday.m, birthday.d) THEN err
        ELSE
          LET this == Date(today.date.y, birthday.m, birthday.d)
              roll == Before(this, today)
          IN  IF roll /\ ~valid_date(today.date.y + 1, birthday.m, birthday.d)
              THEN err
              ELSE
                LET next == IF roll
                            THEN Date(today.date.y + 1, birthday.m, birthday.d)
                            ELSE this
                    days == DaysUntil(next, today)
                IN  IF 0 <= days /\ days <= 7
                    THEN LET sh == shift_weekend(next)
                         IN  IF sh.raised THEN err
                             ELSE [raised |-> FALSE, keep |-> TRUE, value |-> sh.value]
                    ELSE none

RECURSIVE upcoming_loop(_, _, _, _, _)
upcoming_loop(b, today, pad, i, acc) ==
    IF i > Len(b) THEN [raised |-> FALSE, list |-> acc]
    ELSE IF ~b[i].rec.birthday.set THEN upcoming_loop(b, today, pad, i + 1, acc)
    ELSE LET one == upcoming_one(b[i].rec.birthday.value, today)
         IN  IF one.raised THEN [raised |-> TRUE, list |-> <<>>]
             ELSE IF one.keep
             THEN upcoming_loop(b, today, pad, i + 1,
                     Append(acc, [name |-> b[i].rec.name,
                                  congratulation_date |-> strftime(one.value, pad)]))
             ELSE upcoming_loop(b, today, pad, i + 1, acc)

\* AddressBook.get_upcoming_birthdays with datetime.today() = today, on a
\* platform whose strftime pads the year or not: [raised, list]; raised =
\* TRUE where it raises ValueError
get_upcoming_birthdays(b, today, pad) == upcoming_loop(b, today, pad, 1, <<>>)

----------------------------------------------------------------------------
(* What a handler gives back: a string (a template and the values put into *)
(* it) or None; and how its body ends: by return or by raise.              *)

Str(text, data) == [type |-> "str", text |-> text, data |-> data]

Msg(text) == Str(text, <<>>)

None == [type |-> "NoneType", text |-> "", data |-> <<>>]

Return(value) == [raised |-> FALSE, exc |-> "", value |-> value]

Raise(exc, text) == [raised |-> TRUE, exc |-> exc, value |-> Msg(text)]

NotFound == "Contact not found."
EnterName == "Please enter a name."
EnterNamePhone == "Please enter a name and phone number."
EnterNameOldNew == "Please enter name, old phone, and new phone."
EnterNameBirthday == "Please enter a name and birthday in the format DD.MM.YYYY."
DayOutOfRange == "day is out of range for month"

\* the decorator: what inner() returns for the way func ended
input_error(out) ==
    IF ~out.raised THEN out.value
    ELSE IF out.exc = "KeyError" THEN Msg(NotFound)
    ELSE IF out.exc = "ValueError" THEN out.value
    ELSE IF out.value.text \in {EnterName, EnterNamePhone, EnterNameOldNew}
         THEN out.value
         ELSE None

PhoneValues(rec) == {rec.phones[i] : i \in 1..Len(rec.phones)}

----------------------------------------------------------------------------
(* The command handlers, undecorated: [book, out] *)

\* add_contact with the record put into the book before its phone is
\* validated
add_contact_insert_first(args, b) ==
    IF Len(args) # 2 THEN [book |-> b, out |-> Raise("IndexError", EnterNamePhone)]
    ELSE
      LET name  == args[1]
          phone == args[2]
      IN  IF ~NameValid(name) THEN [book |-> b, out |-> Return(Msg(NameError))]
          ELSE IF ~PhoneValid(phone)
          THEN [book |-> IF find(b, name) = 0 THEN add_record(b, Record(name)) ELSE b,
                out  |-> Return(Msg(PhoneError))]
          ELSE
            LET record   == add_phone(Record(name), phone)
                existing == find(b, name)
            IN  IF existing = 0
                THEN [book |-> add_record(b, record),
                      out  |-> Return(Msg("Contact added."))]
                ELSE IF phone \notin PhoneValues(b[existing].rec)
                THEN [book |-> [b EXCEPT ![existing].rec = add_phone(@, phone)],
                      out  |-> Return(Msg("Contact updated."))]
                ELSE [book |-> b,
                      out  |-> Return(Msg("Phone number already exists for this contact."))]

add_contact(args, b) ==
    IF Len(args) # 2 THEN [book |-> b, out |-> Raise("IndexError", EnterNamePhone)]
    ELSE
      LET name  == args[1]
          phone == args[2]
      IN  IF ~NameValid(name) THEN [book |-> b, out |-> Return(Msg(NameError))]
          ELSE IF ~PhoneValid(phone) THEN [book |-> b, out |-> Return(Msg(PhoneError))]
          ELSE
            LET record   == add_phone(Record(name), phone)
                existing == find(b, name)
            IN  IF existing = 0
                THEN [book |-> add_record(b, record),
                      out  |-> Return(Msg("Contact added."))]
                ELSE IF phone \notin PhoneValues(b[existing].rec)
                THEN [book |-> [b EXCEPT ![existing].rec = add_phone(@, phone)],
                      out  |-> Return(Msg("Contact updated."))]
                ELSE [book |-> b,
                      out  |-> Return(Msg("Phone number already exists for this contact."))]

delete_contact(args, b) ==
    IF Len(args) # 1 THEN [book |-> b, out |-> Raise("IndexError", EnterName)]
    ELSE
      LET name == args[1]
      IN  IF ~NameValid(name) THEN [book |-> b, out |-> Return(Msg(NameError))]
          ELSE IF delete(b, name).raised
          THEN [book |-> b, out |-> Raise("KeyError", "")]
          ELSE [book |-> delete(b, name).book, out |-> Return(Msg("Contact deleted."))]

remove_contact_phone(args, b) ==
    IF Len(args) # 2 THEN [book |-> b, out |-> Raise("IndexError", EnterNamePhone)]
    ELSE
      LET name   == args[1]
          phone  == args[2]
          record == find(b, name)
      IN  IF ~NameValid(name) THEN [book |-> b, out |-> Return(Msg(NameError))]
          ELSE IF ~PhoneValid(phone) THEN [book |-> b, out |-> Return(Msg(PhoneError))]
          ELSE IF record = 0 THEN [book |-> b, out |-> Return(Msg(NotFound))]
          ELSE IF phone \notin PhoneValues(b[record].rec)
          THEN [book |-> b,
                out  |-> Return(Msg("Phone number not found in contact's phones."))]
          ELSE [book |-> [b EXCEPT ![record].rec = remove_phone(@, phone)],
                out  |-> Return(Msg("Phone removed."))]

change_contact(args, b) ==
    IF Len(args) # 3 THEN [book |-> b, out |-> Raise("IndexError", EnterNameOldNew)]
    ELSE
      LET name      == args[1]
          old_phone == args[2]
          new_phone == args[3]
          record    == find(b, name)
      IN  IF ~NameValid(name) THEN [book |-> b, out |-> Return(Msg(NameError))]
          ELSE IF ~PhoneValid(old_phone) \/ ~PhoneValid(new_phone)
          THEN [book |-> b, out |-> Return(Msg(PhoneError))]
          ELSE IF record = 0 THEN [book |-> b, out |-> Return(Msg(NotFound))]
          ELSE IF old_phone \notin PhoneValues(b[record].rec)
          THEN [book |-> b,
                out  |-> Return(Msg("Old phone number not found in contact's phones."))]
          ELSE [book |-> [b EXCEPT ![record].rec = edit_phone(@, old_phone, new_phone)],
                out  |-> Return(Msg("Contact changed."))]

get_contact(args, b) ==
    IF Len(args) # 1 THEN [book |-> b, out |-> Raise("IndexError", EnterName)]
    ELSE
      LET name   == args[1]
          record == find(b, name)
      IN  IF ~NameValid(name) THEN [book |-> b, out |-> Return(Msg(NameError))]
          ELSE IF record = 0 THEN [book |-> b, out |-> Return(Msg(NotFound))]
          ELSE [book |-> b,
                out  |-> Return(Str("{}'s phones: {}.",
                                    <<capitalize(b[record].rec.name),
                                      b[record].rec.phones>>))]

\* Record.__str__: the name capitalized, the phones, and the birthday
\* formatted (the empty string standing for "no birthday record")
RecordStr(rec, pad) ==
    [name     |-> capitalize(rec.name),
     phones   |-> rec.phones,
     birthday |-> IF rec.birthday.set THEN strftime(rec.birthday.value, pad) ELSE <<>>]

get_all_contacts(b, pad) ==
    IF b = <<>> THEN [book |-> b, out |-> Return(Msg("No contacts found."))]
    ELSE [book |-> b,
          out  |-> Return(Str("Contact name: {}, Phones: {}, Birthday: {}",
                              [i \in 1..Len(b) |-> RecordStr(b[i].rec, pad)]))]

add_birthday(args, b, pad) ==
    IF Len(args) # 2 THEN [book |-> b, out |-> Raise("IndexError", EnterNameBirthday)]
    ELSE
      LET name     == args[1]
          birthday == Birthday(args[2])
          record   == find(b, name)
      IN  IF ~NameValid(name) THEN [book |-> b, out |-> Return(Msg(NameError))]
          ELSE IF ~birthday.ok THEN [book |-> b, out |-> Return(Msg(BirthdayError))]
          ELSE IF record = 0 THEN [book |-> b, out |-> Return(Msg(NotFound))]
          ELSE
            \* record.add_birthday parses the date formatted back to a string
            LET again == Birthday(strftime(birthday.value, pad))
            IN  IF ~again.ok
                THEN [book |-> b, out |-> Raise("ValueError", BirthdayError)]
                ELSE [book |-> [b EXCEPT ![record].rec = set_birthday(@, again.value)],
                      out  |-> Return(Msg("Birthday added."))]

show_birthday(args, b, pad) ==
    IF Len(args) # 1 THEN [book |-> b, out |-> Raise("IndexError", EnterName)]
    ELSE
      LET name   == args[1]
          record == find(b, name)
      IN  IF ~NameValid(name) THEN [book |-> b, out |-> Return(Msg(NameError))]
          ELSE IF record = 0 THEN [book |-> b, out |-> Return(Msg(NotFound))]
          ELSE IF b[record].rec.birthday.set
          THEN [book |-> b,
                out  |-> Return(Str("{}'s day of birth is {}.",
                                    <<capitalize(name),
                                      strftime(b[record].rec.birthday.value, pad)>>))]
          ELSE [book |-> b,
                out  |-> Return(Str("{} has no birthday record.", <<capitalize(name)>>))]

birthdays(b, today, pad) ==
    LET upcoming_birthdays == get_upcoming_birthdays(b, today, pad)
    IN  IF upcoming_birthdays.raised
        THEN [book |-> b, out |-> Raise("ValueError", DayOutOfRange)]
        ELSE IF upcoming_birthdays.list = <<>>
        THEN [book |-> b, out |-> Return(Msg("No upcoming birthdays."))]
        ELSE [book |-> b,
              out  |-> Return(Str("{}'s birthday is on {}.",
                          [i \in 1..Len(upcoming_birthdays.list) |->
                              [name |-> capitalize(upcoming_birthdays.list[i].name),
                               congratulation_date |->
                                   upcoming_birthdays.list[i].congratulation_date]]))]

----------------------------------------------------------------------------
(* Persistence: pickle writes the object graph as a stream of opcodes and  *)
(* reads it back by running them.                                          *)

NoFile == [exists |-> FALSE, bytes |-> <<>>]

Op(op, val) == [op |-> op, val |-> val]

DumpRecord(e) ==
    <<Op("KEY", e.key), Op("NAME", e.rec.name)>>
    \o [i \in 1..Len(e.rec.phones) |-> Op("PHONE", e.rec.phones[i])]
    \o (IF e.rec.birthday.set
        THEN <<Op("BDAY", <<e.rec.birthday.value.y, e.rec.birthday.value.m,
                            e.rec.birthday.value.d>>)>>
        ELSE <<>>)
    \o <<Op("SETITEM", <<>>)>>

RECURSIVE DumpItems(_, _)
DumpItems(b, i) ==
    IF i > Len(b) THEN <<>> ELSE DumpRecord(b[i]) \o DumpItems(b, i + 1)

\* pickle.dump(book, f)
dumps(b) == DumpItems(b, 1)

EmptyItem == [key |-> <<>>, rec |-> Record(<<>>)]

\* one opcode run by the unpickler: the item being built, after it
load_op_no_birthday(cur, o) ==
    IF o.op = "KEY" THEN [cur EXCEPT !.key = o.val]
    ELSE IF o.op = "NAME" THEN [cur EXCEPT !.rec.name = o.val]
    ELSE IF o.op = "PHONE" THEN [cur EXCEPT !.rec.phones = Append(@, o.val)]
    ELSE cur

load_op(cur, o) ==
    IF o.op = "KEY" THEN [cur EXCEPT !.key = o.val]
    ELSE IF o.op = "NAME" THEN [cur EXCEPT !.rec.name = o.val]
    ELSE IF o.op = "PHONE" THEN [cur EXCEPT !.rec.phones = Append(@, o.val)]
    ELSE IF o.op = "BDAY"
    THEN [cur EXCEPT !.rec.birthday =
              [set |-> TRUE, value |-> Date(o.val[1], o.val[2], o.val[3])]]
    ELSE cur

RECURSIVE LoadItems(_, _, _, _)
LoadItems(bytes, i, cur, acc) ==
    IF i > Len(bytes) THEN acc
    ELSE IF bytes[i].op = "SETITEM"
    THEN LoadItems(bytes, i + 1, EmptyItem, SetItem(acc, cur.key, cur.rec))
    ELSE LoadItems(bytes, i + 1, load_op(cur, bytes[i]), acc)

\* pickle.load(f)
loads(bytes) == LoadItems(bytes, 1, EmptyItem, <<>>)

\* load_data: the unpickled book, or AddressBook() when there is no file
load_data(f) == IF f.exists THEN loads(f.bytes) ELSE <<>>

\* save_data: open(filename, "wb") truncates, pickle.dump writes
save_data(b) == [exists |-> TRUE, bytes |-> dumps(b)]

----------------------------------------------------------------------------
(* The inputs the model draws from *)

JOHN == <<"j", "o", "h", "n">>
MARY == <<"m", "a", "r", "y">>
J0HN == <<"j", "0", "h", "n">>

P1 == <<"1", "2", "3", "4", "5", "6", "7", "8", "9", "0">>
P2 == <<"0", "9", "8", "7", "6", "5", "4", "3", "2", "1">>
P3 == <<"5", "5", "5", "5", "5", "5", "5", "5", "5", "5">>
PSUP == <<"^2", "^2", "^2", "^2", "^2", "^2", "^2", "^2", "^2", "^2">>
P9 == <<"1", "2", "3", "4", "5", "6", "7", "8", "9">>

B_0101_2030 == <<"0", "1", ".", "0", "1", ".", "2", "0", "3", "0">>
B_0101_0999 == <<"0", "1", ".", "0", "1", ".", "0", "9", "9", "9">>
B_3102_2020 == <<"3", "1", ".", "0", "2", ".", "2", "0", "2", "0">>
B_3105_1990 == <<"3", "1", ".", "0", "5", ".", "1", "9", "9", "0">>
B_2805_1990 == <<"2", "8", ".", "0", "5", ".", "1", "9", "9", "0">>
B_0106_1990 == <<"0", "1", ".", "0", "6", ".", "1", "9", "9", "0">>
B_2105_1990 == <<"2", "1", ".", "0", "5", ".", "1", "9", "9", "0">>
B_2902_2000 == <<"2", "9", ".", "0", "2", ".", "2", "0", "0", "0">>

Names == {JOHN, MARY, J0HN}
Phones == {P1, P2, P3, P9}
Birthdays == {B_0101_2030, B_3102_2020}

\* argument lists of every length from 0 to 4
ArityProbes ==
    {<<>>, <<JOHN>>, <<JOHN, P1>>, <<JOHN, P1, P2>>, <<JOHN, P1, P2, P1>>}

Args1 == {<<n>> : n \in Names} \cup ArityProbes
Args2 == {<<n, p>> : n \in Names, p \in Phones} \cup ArityProbes
Args3 == {<<n, p, q>> : n \in Names, p \in Phones, q \in Phones} \cup ArityProbes
ArgsBirthday == {<<n, d>> : n \in Names, d \in Birthdays} \cup ArityProbes

Now(y, m, d, sec) == [date |-> Date(y, m, d), sec |-> sec]

NoNow == Now(0, 0, 0, 0)

\* datetime.today() in the sessions of Spec: a Friday noon six days before
\* 1 January, and a midnight in June
Nows == {Now(2025, 12, 26, 43200), Now(2025, 6, 1, 0)}

\* whether the platform's strftime pads a year below 1000
Pads == BOOLEAN

----------------------------------------------------------------------------
(* The program: main()'s loop and the handler each command dispatches to *)

RECURSIVE TotalPhones(_, _)
TotalPhones(b, i) ==
    IF i > Len(b) THEN 0 ELSE Len(b[i].rec.phones) + TotalPhones(b, i + 1)

Idle == [cmd |-> "", args |-> <<>>, result |-> None, now |-> NoNow]

\* one command of the loop: input() has returned it, and the handler has run
\* to its end under input_error
Call(cmd, args, now, res) ==
    /\ pc = "prompt"
    /\ pc' = "print"
    /\ book' = res.book
    /\ prev' = book
    /\ last' = [cmd |-> cmd, args |-> args, result |-> input_error(res.out), now |-> now]
    /\ UNCHANGED <<file, saved>>

\* the result is printed and the loop is back in input()
ShowResult ==
    /\ pc = "print"
    /\ pc' = "prompt"
    /\ last' = Idle
    /\ prev' = <<>>
    /\ UNCHANGED <<book, file, saved>>

AddContact(A) ==
    \E args \in A :
        /\ TotalPhones(add_contact(args, book).book, 1) <= MaxPhones
        /\ Call("add", args, NoNow, add_contact(args, book))

DeleteContact(A) ==
    \E args \in A : Call("delete", args, NoNow, delete_contact(args, book))

RemoveContactPhone(A) ==
    \E args \in A : Call("remove", args, NoNow, remove_contact_phone(args, book))

ChangeContact(A) ==
    \E args \in A : Call("change", args, NoNow, change_contact(args, book))

GetContact(A) ==
    \E args \in A : Call("phone", args, NoNow, get_contact(args, book))

GetAllContacts ==
    \E pad \in Pads : Call("all", <<>>, NoNow, get_all_contacts(book, pad))

AddBirthday(A) ==
    \E args \in A, pad \in Pads :
        Call("add-birthday", args, NoNow, add_birthday(args, book, pad))

ShowBirthday(A) ==
    \E args \in A, pad \in Pads :
        Call("show-birthday", args, NoNow, show_birthday(args, book, pad))

ListBirthdays(N) ==
    \E now \in N, pad \in Pads :
        Call("birthdays", <<>>, now, birthdays(book, now, pad))

Hello ==
    Call("hello", <<>>, NoNow, [book |-> book, out |-> Return(Msg("How can I help you?"))])

InvalidCommand ==
    Call("invalid", <<>>, NoNow, [book |-> book, out |-> Return(Msg("Invalid command."))])

\* main() starts: book = load_data()
Startup ==
    /\ pc = "stopped"
    /\ pc' = "print"
    /\ book' = load_data(file)
    /\ prev' = <<>>
    /\ last' = [cmd |-> "load", args |-> <<>>, result |-> Msg("Welcome to the assistant bot!"),
                now |-> NoNow]
    /\ UNCHANGED <<file, saved>>

\* close / exit: save_data(book), then the loop and the process end
Close ==
    /\ pc = "prompt"
    /\ pc' = "stopped"
    /\ file' = save_data(book)
    /\ saved' = book
    /\ book' = <<>>
    /\ UNCHANGED <<last, prev>>

\* the process ends inside input() (end of input, an interrupt): nothing is saved
Abort ==
    /\ pc = "prompt"
    /\ pc' = "stopped"
    /\ book' = <<>>
    /\ UNCHANGED <<file, saved, last, prev>>

----------------------------------------------------------------------------
(* Spec: one session on an Address Book that starts empty: main() has just *)
(* loaded it, there being no file                                          *)

Init ==
    /\ book = <<>>
    /\ file = NoFile
    /\ pc = "print"
    /\ last = [cmd |-> "load", args |-> <<>>, result |-> Msg("Welcome to the assistant bot!"),
               now |-> NoNow]
    /\ prev = <<>>
    /\ saved = <<>>

Next ==
    \/ AddContact(Args2)
    \/ DeleteContact(Args1)
    \/ RemoveContactPhone(Args2)
    \/ ChangeContact(Args3)
    \/ GetContact(Args1)
    \/ GetAllContacts
    \/ AddBirthday(ArgsBirthday)
    \/ ShowBirthday(Args1)
    \/ ListBirthdays(Nows)
    \/ Hello
    \/ InvalidCommand
    \/ ShowResult

Spec == Init /\ [][Next]_vars

----------------------------------------------------------------------------
(* SpecBirthdays: contacts with birthdays, asked for the upcoming birthdays *)
(* on the days around them, at midnight and at noon                        *)

BirthdayNames == {JOHN, MARY}

BirthdayDates ==
    {B_3105_1990, B_2805_1990, B_0106_1990, B_2105_1990, B_2902_2000, B_0101_0999}

TimesOfDay == {0, 43200}

BirthdayNows ==
    {Now(2025, 5, d, t) : d \in 20..31, t \in TimesOfDay}
    \cup {Now(2025, 6, d, t) : d \in 1..2, t \in TimesOfDay}
    \cup {Now(2025, 12, 28, t) : t \in TimesOfDay}
    \cup {Now(2028, 2, 25, t) : t \in TimesOfDay}

NextBirthdays ==
    \/ AddContact({<<n, P1>> : n \in BirthdayNames})
    \/ AddBirthday({<<n, d>> : n \in BirthdayNames, d \in BirthdayDates})
    \/ ShowBirthday({<<n>> : n \in BirthdayNames})
    \/ ListBirthdays(BirthdayNows)
    \/ ShowResult

SpecBirthdays == Init /\ [][NextBirthdays]_vars

----------------------------------------------------------------------------
(* SpecSessions: main() started, used and ended again and again on one file *)

InitSessions ==
    /\ book = <<>>
    /\ file = NoFile
    /\ pc = "stopped"
    /\ last = Idle
    /\ prev = <<>>
    /\ saved = <<>>

NextSessions ==
    \/ Startup
    \/ Close
    \/ Abort
    \/ AddContact({<<JOHN, P1>>, <<JOHN, P2>>, <<MARY, PSUP>>})
    \/ DeleteContact({<<JOHN>>})
    \/ RemoveContactPhone({<<JOHN, P1>>})
    \/ ChangeContact({<<JOHN, P1, P2>>})
    \/ AddBirthday({<<JOHN, B_0101_2030>>, <<MARY, B_2805_1990>>})
    \/ ShowResult

SpecSessions == InitSessions /\ [][NextSessions]_vars

----------------------------------------------------------------------------
(* Properties of the program *)

\* the birthdays command has run and its answer is on the screen
AskedBirthdays == pc = "print" /\ last.cmd = "birthdays"

Upcoming == get_upcoming_birthdays(book, last.now, TRUE)

Listed(name) ==
    \E j \in 1..Len(Upcoming.list) : Upcoming.list[j].name = name

\* the calendar date of the next occurrence of a birthday, as an ordinal:
\* this year's date unless it lies before today's date, then next year's
OccurrenceDefined(bd, now) ==
    /\ valid_date(now.date.y, bd.m, bd.d)
    /\ valid_date(now.date.y + 1, bd.m, bd.d)

NextOccurrenceDate(bd, now) ==
    IF toordinal(Date(now.date.y, bd.m, bd.d)) >= toordinal(now.date)
    THEN Date(now.date.y, bd.m, bd.d)
    ELSE Date(now.date.y + 1, bd.m, bd.d)

DaysAway(bd, now) == toordinal(NextOccurrenceDate(bd, now)) - toordinal(now.date)

\* C1: at every instant, a record whose next birthday falls on the calendar
\* date 7 days after today is in the result of get_upcoming_birthdays, and
\* one whose next birthday falls 8 days after today is not
C1_SevenInEightOut ==
    (AskedBirthdays /\ ~Upcoming.raised) =>
        \A i \in 1..Len(book) :
            LET rec == book[i].rec
            IN  (rec.birthday.set /\ OccurrenceDefined(rec.birthday.value, last.now)) =>
                    /\ DaysAway(rec.birthday.value, last.now) = 7 => Listed(rec.name)
                    /\ DaysAway(rec.birthday.value, last.now) = 8 => ~Listed(rec.name)

\* C2: at every instant, a record whose birthday has today's day and month
\* is in the result of get_upcoming_birthdays
C2_TodayQualifies ==
    (AskedBirthdays /\ ~Upcoming.raised) =>
        \A i \in 1..Len(book) :
            LET rec == book[i].rec
            IN  (/\ rec.birthday.set
                 /\ rec.birthday.value.m = last.now.date.m
                 /\ rec.birthday.value.d = last.now.date.d) => Listed(rec.name)

HandlerCmds ==
    {"add", "delete", "remove", "change", "phone", "all", "add-birthday",
     "show-birthday", "birthdays"}

Arity(cmd) ==
    IF cmd \in {"all", "birthdays"} THEN 0
    ELSE IF cmd \in {"delete", "phone", "show-birthday"} THEN 1
    ELSE IF cmd = "change" THEN 3 ELSE 2

ArityMessage(cmd) ==
    IF cmd \in {"delete", "phone", "show-birthday"} THEN EnterName
    ELSE IF cmd \in {"add", "remove"} THEN EnterNamePhone
    ELSE IF cmd = "change" THEN EnterNameOldNew
    ELSE EnterNameBirthday

\* C3: every handler, whatever the argument list, returns a string, and for
\* a wrong number of arguments its arity message
C3_HandlersReturnMessages ==
    (pc = "print" /\ last.cmd \in HandlerCmds) =>
        /\ last.result.type = "str"
        /\ Len(last.args) # Arity(last.cmd) => last.result.text = ArityMessage(last.cmd)

\* C4: every key of the Address Book is the name of the Record it maps to,
\* and no two entries hold the same name
C4_KeyIsName ==
    /\ \A i \in 1..Len(book) : book[i].key = book[i].rec.name
    /\ \A i, j \in 1..Len(book) : book[i].rec.name = book[j].rec.name => i = j

C4_Witness ==
    /\ Len(book) = 2
    /\ \E i \in 1..2 : book[i].rec.birthday.set /\ Len(book[i].rec.phones) = 2

\* C5: every phone stored in every Record is a string of exactly 10 decimal
\* digits
C5_PhonesTenDecimalDigits ==
    \A i \in 1..Len(book) :
        \A k \in 1..Len(book[i].rec.phones) :
            Len(book[i].rec.phones[k]) = 10 /\ AllDecimal(book[i].rec.phones[k])

\* the add command has run with a name and a phone that pass validation
AddedValid ==
    /\ pc = "print"
    /\ last.cmd = "add"
    /\ Len(last.args) = 2
    /\ NameValid(last.args[1])
    /\ PhoneValid(last.args[2])

\* C6: add name phone, both valid: an absent contact is created with the
\* phone list [phone] and "Contact added."; a contact that does not list the
\* phone gets it appended and "Contact updated."; for one that lists it the
\* answer is "Phone number already exists for this contact." and its phones
\* stay as they were
C6_AddContact ==
    AddedValid =>
        LET name  == last.args[1]
            phone == last.args[2]
            was   == IndexOf(prev, name)
            is    == IndexOf(book, name)
        IN  /\ is # 0
            /\ IF was = 0
               THEN /\ last.result.text = "Contact added."
                    /\ book[is].rec.phones = <<phone>>
               ELSE IF phone \notin PhoneValues(prev[was].rec)
               THEN /\ last.result.text = "Contact updated."
                    /\ book[is].rec.phones = Append(prev[was].rec.phones, phone)
               ELSE /\ last.result.text = "Phone number already exists for this contact."
                    /\ book[is].rec.phones = prev[was].rec.phones

C6_Witness ==
    /\ AddedValid
    /\ last.result.text = "Contact updated."
    /\ Len(book[IndexOf(book, last.args[1])].rec.phones) = 3

\* a list without its first element equal to x
RECURSIVE RemoveFirst(_, _)
RemoveFirst(s, x) ==
    IF s = <<>> THEN <<>>
    ELSE IF Head(s) = x THEN Tail(s)
    ELSE <<Head(s)>> \o RemoveFirst(Tail(s), x)

\* C7: after a successful remove name p the contact's phone list is the list
\* before without its first phone equal to p, the others kept in order
C7_RemoveFirstOnly ==
    (pc = "print" /\ last.cmd = "remove" /\ last.result.text = "Phone removed.") =>
        LET i == IndexOf(book, last.args[1])
        IN  book[i].rec.phones = RemoveFirst(prev[i].rec.phones, last.args[2])

\* a list with its first element equal to x replaced by y
RECURSIVE ReplaceFirst(_, _, _)
ReplaceFirst(s, x, y) ==
    IF s = <<>> THEN <<>>
    ELSE IF Head(s) = x THEN <<y>> \o Tail(s)
    ELSE <<Head(s)>> \o ReplaceFirst(Tail(s), x, y)

\* C8: after change name old new answers "Contact changed." the contact's
\* phone list is the list before with only its first phone equal to old
\* replaced by new
C8_EditFirstOnly ==
    (pc = "print" /\ last.cmd = "change" /\ last.result.text = "Contact changed.") =>
        LET i == IndexOf(book, last.args[1])
        IN  book[i].rec.phones =
                ReplaceFirst(prev[i].rec.phones, last.args[2], last.args[3])

\* the day after a date, across the ends of months and years
NextDay(dt) ==
    IF dt.d < days_in_month(dt.y, dt.m) THEN Date(dt.y, dt.m, dt.d + 1)
    ELSE IF dt.m < 12 THEN Date(dt.y, dt.m + 1, 1)
    ELSE Date(dt.y + 1, 1, 1)

\* the first Monday-to-Friday date on or after a date
RECURSIVE FirstWeekday(_)
FirstWeekday(dt) == IF weekday(dt) > 4 THEN FirstWeekday(NextDay(dt)) ELSE dt

\* the next occurrence of a birthday counted from the instant now: this
\* year's date unless its midnight lies before now, then next year's
NextOccurrence(bd, now) ==
    IF Before(Date(now.date.y, bd.m, bd.d), now)
    THEN Date(now.date.y + 1, bd.m, bd.d)
    ELSE Date(now.date.y, bd.m, bd.d)

\* that occurrence is no more than 7 times 24 hours after now
WithinSevenDays(bd, now) ==
    (toordinal(NextOccurrence(bd, now)) - toordinal(now.date)) * 86400 - now.sec
        <= 7 * 86400

\* C9: every record whose next birthday is 0 to 7 days from now has an entry
\* in the result of get_upcoming_birthdays with its name and, as
\* congratulation_date, the first Monday-to-Friday date on or after the
\* birthday; the entries are in the insertion order of the mapping
C9_CongratulationDate ==
    AskedBirthdays =>
        /\ \A i \in 1..Len(book) :
            LET rec == book[i].rec
            IN  (/\ rec.birthday.set
                 /\ OccurrenceDefined(rec.birthday.value, last.now)
                 /\ WithinSevenDays(rec.birthday.value, last.now)) =>
                    /\ ~Upcoming.raised
                    /\ \E j \in 1..Len(Upcoming.list) :
                        /\ Upcoming.list[j].name = rec.name
                        /\ Upcoming.list[j].congratulation_date =
                             strftime(FirstWeekday(
                                 NextOccurrence(rec.birthday.value, last.now)), TRUE)
        /\ \A j, k \in 1..Len(Upcoming.list) :
            j < k => IndexOf(book, Upcoming.list[j].name)
                        < IndexOf(book, Upcoming.list[k].name)

\* main() has just started and loaded the book
Loaded == pc = "print" /\ last.cmd = "load"

\* C10: the book in memory right after startup is the book that was in
\* memory at the most recent close or exit, names, phone sequences and
\* birthdays; with no file ever saved it is empty
C10_LoadIsLastSave ==
    Loaded => book = (IF file.exists THEN saved ELSE <<>>)

C10_Witness ==
    /\ Loaded
    /\ file.exists
    /\ Len(book) = 2
    /\ \E i \in 1..2 : book[i].rec.birthday.set /\ Len(book[i].rec.phones) = 2

\* what a handler answers when it does not report success
FailureTexts ==
    {EnterName, EnterNamePhone, EnterNameOldNew, EnterNameBirthday,
     NameError, PhoneError, BirthdayError, NotFound,
     "Phone number not found in contact's phones.",
     "Old phone number not found in contact's phones.",
     "Phone number already exists for this contact."}

\* a handler has run and its answer is not a report of success
HandlerFailed ==
    /\ pc = "print"
    /\ last.cmd \in HandlerCmds
    /\ last.result.type = "NoneType" \/ last.result.text \in FailureTexts

\* C11: a handler call that does not report success leaves the Address Book
\* as it was: the same names, and for every contact the same phone sequence
\* and the same birthday
C11_FailureLeavesBook ==
    HandlerFailed => book = prev

C11_Witness ==
    /\ HandlerFailed
    /\ last.cmd = "change"
    /\ last.result.text = "Old phone number not found in contact's phones."
    /\ Len(book) = 2
    /\ \E i \in 1..2 : book[i].rec.birthday.set

=============================================================================
